---- MODULE Spec2Model ----
(***************************************************************************)
(* Model of the three command-line utilities of IndustryBenchmarks2024:    *)
(*   utils/extras/plot_results.py   (run, the readers and the reports)     *)
(*   utils/rename_exp_data.py       (main)                                 *)
(*   utils/maint/gen_amber_top.py   (main)                                 *)
(* Free energies are integers in units of 0.1 kcal/mol, standard errors    *)
(* are integers in units of 0.001 kcal/mol (decimal fixed point).          *)
(***************************************************************************)
EXTENDS Integers, Sequences, FiniteSets, TLC

VARIABLES
    pc,                 \* position of the running script
    error,              \* the exception that left the script, or "none"
    raisedIn,           \* the function that raised it
    headers,            \* get_exp_data: the header row read (set of columns)
    expRows,            \* get_exp_data: the data rows consumed so far
    experimental_data,  \* get_exp_data: the local mapping being filled
    exp_data,           \* run: the mapping get_exp_data returned
    calcRows,           \* get_calc_data: the data rows of the file read
    calc_data,          \* run: the mapping get_calc_data returned
    warnings,           \* tags for which warnings.warn was called
    femap,              \* run: the nodes of femap.to_legacy_graph()
    handler,            \* run: TRUE while the except block executes
    calls,              \* the report functions invoked, with their statistics
    notices,            \* number of click.echo notices printed
    plots,              \* plot files written
    pf,                 \* locals of the last plot_femap call
    ps,                 \* locals of the last plot_schrodinger_comparison call
    po,                 \* locals of the last plot_openfe_schrodinger_comparison call
    csv_file,           \* rename: the rows of the --experimental-data file
    exp_csv,            \* rename: the DataFrame in memory
    name_mapping,       \* rename: the mapping loaded from the JSON file
    renamed,            \* rename: the values _rename has returned so far
    output,             \* rename: the file at --output
    message,            \* rename: the value named in the RuntimeError
    args,               \* gen_amber_top: the arguments of main
    fs,                 \* gen_amber_top: the paths that exist
    events,             \* gen_amber_top: makedirs and tool calls and returns
    input_pdb,          \* gen_amber_top: the local input_pdb
    output_pdb_path     \* gen_amber_top: the local output_pdb_path

vars == <<pc, error, raisedIn, headers, expRows, experimental_data, exp_data,
          calcRows, calc_data, warnings, femap, handler, calls, notices,
          plots, pf, ps, po, csv_file, exp_csv, name_mapping, renamed, output,
          message, args, fs, events, input_pdb, output_pdb_path>>

reportVars == <<femap, handler, calls, notices, plots, pf, ps, po>>
calcVars == <<calcRows, calc_data, warnings>>
plotVars ==
    <<headers, expRows, experimental_data, exp_data, calcVars, reportVars>>
renameVars == <<csv_file, exp_csv, name_mapping, renamed, output, message>>
amberVars == <<args, fs, events, input_pdb, output_pdb_path>>

(***************************************************************************)
(* Bounds of the model.                                                    *)
(***************************************************************************)
MaxExpRows == 3
MaxCalcRows == 2
MaxRunCalcRows == 2

Ligands == {"lig_a", "lig_b", "lig_c"}

(***************************************************************************)
(* Generic helpers: Python dicts keep insertion order, so a dict is a      *)
(* sequence of keys plus a value function.                                 *)
(***************************************************************************)
Range(s) == {s[i] : i \in 1..Len(s)}

EmptyDict == [keys |-> << >>, val |-> [k \in {} |-> 0]]

DictPut(d, k, v) ==
    [keys |-> IF k \in Range(d.keys) THEN d.keys ELSE Append(d.keys, k),
     val  |-> (k :> v) @@ d.val]

RECURSIVE SumSeq(_)
SumSeq(s) == IF s = << >> THEN 0 ELSE Head(s) + SumSeq(Tail(s))

SeqsUpTo(S, n) == UNION {[1..k -> S] : k \in 0..n}

\* A text cell of a delimited file: float(cell) succeeds with value v, or
\* raises ValueError.
Num(v) == [ok |-> TRUE, v |-> v]
Malformed == [ok |-> FALSE, v |-> 0]

\* sum(values) / len(values) as an exact fraction; the caller checks den > 0.
Mean(values) == [num |-> SumSeq(values), den |-> Len(values)]

NoShift == [num |-> 0, den |-> 0]

(***************************************************************************)
(* get_exp_data                                                            *)
(***************************************************************************)
NameCol == "Ligand name"
ExpCol == "Exp. dG (kcal/mol)"
ExpErrCol == "Exp. dG error (kcal/mol)"
FepCol == "Pred. dG (kcal/mol)"
FepErrCol == "Pred. dG std. error (kcal/mol)"

Columns == {NameCol, ExpCol, ExpErrCol, FepCol, FepErrCol}

\* the columns looked up with headers.index outside a try block
RequiredColumns == {NameCol, ExpCol, FepCol, FepErrCol}

HeaderChoices == SUBSET Columns

ExpRowChoices ==
    [name : Ligands,
     exp_dG : {Num(-100), Num(-80), Malformed},
     exp_dG_err : {Num(200), Malformed},
     fep_dG : {Num(-90), Malformed},
     fep_dG_err : {Num(300), Malformed}]

\* the cells of a row that float() is applied to, given the header
ParsedCells(h, row) ==
    {row.exp_dG, row.fep_dG, row.fep_dG_err}
        \cup (IF ExpErrCol \in h THEN {row.exp_dG_err} ELSE {})

RowParses(h, row) == \A c \in ParsedCells(h, row) : c.ok

ExpRecord(h, row) ==
    [exp_dG     |-> row.exp_dG.v,
     exp_dG_err |-> IF ExpErrCol \in h THEN row.exp_dG_err.v ELSE 0,
     fep_dG     |-> row.fep_dG.v,
     fep_dG_err |-> row.fep_dG_err.v]

Unbound == [bound |-> FALSE, keys |-> << >>, val |-> [k \in {} |-> 0]]

Bound(d) == [bound |-> TRUE, keys |-> d.keys, val |-> d.val]

(***************************************************************************)
(* get_calc_data                                                           *)
(***************************************************************************)
\* "if calculated_data[tag]['ddG_err'] < 0.01", in units of 0.001
ErrThreshold == 10
\* "calculated_data[tag]['ddG_err'] += 0.01", in units of 0.001
ErrPadding == 10

CalcRowChoices ==
    [ligand_i : {"lig_a", "lig_b"},
     ligand_j : {"lig_b", "lig_c"},
     ddG : {Num(10)},
     err : {Num(-5), Num(0), Num(3), Num(9), Num(10), Num(20), Malformed}]

CalcFiles == SeqsUpTo(CalcRowChoices, MaxCalcRows)

\* the calculated files drawn in run(): a chain of edges, one of them with a
\* near-zero error, and a row whose error does not parse
RunCalcRowChoices ==
    {[ligand_i |-> "lig_a", ligand_j |-> "lig_b", ddG |-> Num(10), err |-> Num(20)],
     [ligand_i |-> "lig_b", ligand_j |-> "lig_c", ddG |-> Num(-5), err |-> Num(3)],
     [ligand_i |-> "lig_a", ligand_j |-> "lig_c", ddG |-> Num(5), err |-> Malformed]}

RunCalcFiles == SeqsUpTo(RunCalcRowChoices, MaxRunCalcRows)

\* tag = row[0] + "->" + row[1]
Tag(row) == <<row.ligand_i, row.ligand_j>>

\* mutant: the comparison made inclusive
NearZeroInclusive(e) == e <= ErrThreshold

NearZero(e) == e < ErrThreshold

\* mutant: the error replaced by the threshold instead of padded
PadErrFloor(e) == IF NearZero(e) THEN ErrThreshold ELSE e

PadErr(e) == IF NearZero(e) THEN e + ErrPadding ELSE e

CalcRecord(row) ==
    [ligand_i |-> row.ligand_i,
     ligand_j |-> row.ligand_j,
     ddG      |-> row.ddG.v,
     ddG_err  |-> PadErr(row.err.v)]

\* the row loop: float() of a malformed cell raises and ends the function
RECURSIVE GetCalcDataFrom(_, _, _)
GetCalcDataFrom(rows, data, warned) ==
    IF rows = << >>
    THEN [err |-> "none", data |-> data, warned |-> warned]
    ELSE LET row == Head(rows)
         IN  IF ~(row.ddG.ok /\ row.err.ok)
             THEN [err |-> "ValueError", data |-> data, warned |-> warned]
             ELSE GetCalcDataFrom(
                      Tail(rows),
                      DictPut(data, Tag(row), CalcRecord(row)),
                      IF NearZero(row.err.v)
                      THEN Append(warned, Tag(row))
                      ELSE warned)

GetCalcData(rows) == GetCalcDataFrom(rows, EmptyDict, << >>)

(***************************************************************************)
(* get_femap and the legacy graph the reports read                         *)
(***************************************************************************)
\* A ligand is a node of femap.to_legacy_graph() when there is calculated
\* data for it ("Check that we have OpenFE calculated data for this ligand").
LegacyGraphNodes(calc) ==
    UNION {{calc.val[t].ligand_i, calc.val[t].ligand_j} : t \in Range(calc.keys)}

\* node[1]["calc_DG"], node[1]["calc_dDG"]: the estimator's outputs, opaque
CalcDG(node) == <<"calc_DG", node>>
CalcdDG(node) == <<"calc_dDG", node>>

\* node[1]["exp_DG"] exists for the ligands that have an experimental
\* Measurement (ground -> ligand, DG = exp_dG)
HasExpDG(d, node) == node \in Range(d.keys)
ExpDG(d, node) == d.val[node].exp_dG

(***************************************************************************)
(* The plotting library                                                    *)
(***************************************************************************)
DefaultStatistics == {"RMSE", "MUE", "R2", "rho"}
FallbackStatistics == {"RMSE", "MUE"}
CorrelationStatistics == {"R2", "rho"}

\* fewer paired points than this and R2 / rho are undefined
MinCorrPoints == 3

\* what cinnabar_plotting._master_plot can do with n paired points: RMSE and
\* MUE are always defined; R2 and rho fail with ValueError on fewer than
\* MinCorrPoints points and may fail on degenerate data (too few distinct
\* points) otherwise.
MasterPlotOutcomes(n, statistics) ==
    IF statistics \cap CorrelationStatistics = {}
    THEN {"none"}
    ELSE IF n < MinCorrPoints
         THEN {"ValueError"}
         ELSE {"none", "ValueError"}

(***************************************************************************)
(* The three reports                                                       *)
(***************************************************************************)
ExpValues(d) == [i \in 1..Len(d.keys) |-> d.val[d.keys[i]].exp_dG]

NotCalled == [called |-> FALSE, err |-> "none", shift |-> NoShift, files |-> {}]

\* plot_femap: plot_DDGs writes the ddG plot, then the shift over exp_data,
\* then the node attributes, then _master_plot writes the dG plot.
PlotFemapResult(nodes, d, lib) ==
    IF Len(d.keys) = 0
    THEN [called |-> TRUE, err |-> "ZeroDivisionError", shift |-> NoShift,
          files |-> {"ddg_plot_filename"}]
    ELSE IF \E n \in nodes : ~HasExpDG(d, n)
         THEN [called |-> TRUE, err |-> "KeyError",
               shift |-> Mean(ExpValues(d)),
               files |-> {"ddg_plot_filename"}]
         ELSE [called |-> TRUE, err |-> lib,
               shift |-> Mean(ExpValues(d)),
               files |-> IF lib = "none"
                         THEN {"ddg_plot_filename", "dg_plot_filename"}
                         ELSE {"ddg_plot_filename"}]

\* plot_schrodinger_comparison: arrays over every entry of exp_data
PlotSchrodingerResult(d, lib) ==
    IF Len(d.keys) = 0
    THEN [called |-> TRUE, err |-> "ZeroDivisionError", shift |-> NoShift,
          files |-> {}]
    ELSE [called |-> TRUE, err |-> lib,
          shift |-> Mean(ExpValues(d)),
          files |-> IF lib = "none" THEN {"dg_fepplus_plot_filename"} ELSE {}]

EmptyArrays ==
    [fep |-> << >>, fep_err |-> << >>, dg_openfe |-> << >>,
     openfe_err |-> << >>, exp |-> << >>]

\* mutant: no check that the ligand is in the graph
HasCalcDataAlways(nodes, entry) == TRUE

\* len(openfe_entry) != 0
HasCalcData(nodes, entry) == entry \in nodes

\* the loop "for entry in exp_data" of plot_openfe_schrodinger_comparison
RECURSIVE PairedArrays(_, _, _)
PairedArrays(keys, d, nodes) ==
    IF keys = << >>
    THEN EmptyArrays
    ELSE LET entry == keys[Len(keys)]
             prev == PairedArrays(SubSeq(keys, 1, Len(keys) - 1), d, nodes)
         IN  IF HasCalcData(nodes, entry)
             THEN [fep        |-> Append(prev.fep, d.val[entry].fep_dG),
                   fep_err    |-> Append(prev.fep_err, d.val[entry].fep_dG_err),
                   dg_openfe  |-> Append(prev.dg_openfe, CalcDG(entry)),
                   openfe_err |-> Append(prev.openfe_err, CalcdDG(entry)),
                   exp        |-> Append(prev.exp, ExpDG(d, entry))]
             ELSE prev

NotCalledOfe ==
    [called |-> FALSE, err |-> "none", shift |-> NoShift, files |-> {},
     arrays |-> EmptyArrays]

PlotOpenfeSchrodingerResult(arrays, lib) ==
    IF Len(arrays.exp) = 0
    THEN [called |-> TRUE, err |-> "ZeroDivisionError", shift |-> NoShift,
          files |-> {}, arrays |-> arrays]
    ELSE [called |-> TRUE, err |-> lib,
          shift |-> Mean(arrays.exp),
          files |-> IF lib = "none"
                    THEN {"dg_openfe_fepplus_plot_filename"}
                    ELSE {},
          arrays |-> arrays]

(***************************************************************************)
(* run() of plot_results.py                                                *)
(***************************************************************************)
ReportFunctions ==
    {"plot_femap", "plot_schrodinger_comparison",
     "plot_openfe_schrodinger_comparison"}

\* mutant: the try block opened before the readers
InTryAnywhere(where) == TRUE

\* the statements inside "try:"
InTry(where) == where \in ReportFunctions

\* "except ValueError:" guards the try body, not the handler's own body
Caught(where, e, inHandler) ==
    ~inHandler /\ InTry(where) /\ e = "ValueError"

\* mutant: the except block calls the reports without statistics=
StatisticsArgDefault(inHandler) == DefaultStatistics

\* the statistics argument of the reports: the default in the try body,
\* ["RMSE", "MUE"] in the except block
StatisticsArg(inHandler) ==
    IF inHandler THEN FallbackStatistics ELSE DefaultStatistics

Throw(e, where) ==
    IF Caught(where, e, handler)
    THEN pc' = "except" /\ UNCHANGED <<error, raisedIn>>
    ELSE pc' = "raised" /\ error' = e /\ raisedIn' = where

Continue(next) == pc' = next /\ UNCHANGED <<error, raisedIn>>

NoPath == [dir |-> "", name |-> << >>]

RenameInit ==
    /\ csv_file = << >>
    /\ exp_csv = << >>
    /\ name_mapping = [k \in {} |-> ""]
    /\ renamed = << >>
    /\ output = [written |-> FALSE, rows |-> << >>]
    /\ message = ""

AmberInit ==
    /\ args = [input_pdb |-> NoPath, force_field |-> "", output_folder |-> ""]
    /\ fs = {}
    /\ events = << >>
    /\ input_pdb = NoPath
    /\ output_pdb_path = NoPath

CalcInit ==
    /\ calcRows = << >>
    /\ calc_data = Unbound
    /\ warnings = << >>

ReportInit ==
    /\ femap = {}
    /\ handler = FALSE
    /\ calls = << >>
    /\ notices = 0
    /\ plots = {}
    /\ pf = NotCalled
    /\ ps = NotCalled
    /\ po = NotCalledOfe

Init ==
    /\ pc = "get_exp_data"
    /\ error = "none"
    /\ raisedIn = "none"
    /\ headers = {}
    /\ expRows = << >>
    /\ experimental_data = EmptyDict
    /\ exp_data = Unbound
    /\ CalcInit
    /\ ReportInit
    /\ RenameInit
    /\ AmberInit

\* get_exp_data, lines 27-39: next(rd) and the headers.index lookups
ReadHeaders ==
    /\ pc = "get_exp_data"
    /\ \E h \in HeaderChoices :
          /\ headers' = h
          /\ IF RequiredColumns \subseteq h
             THEN Continue("exp_rows")
             ELSE Throw("ValueError", "get_exp_data")
    /\ UNCHANGED <<expRows, experimental_data, exp_data, calcVars, reportVars>>
    /\ UNCHANGED <<renameVars, amberVars>>

\* get_exp_data, lines 42-50: one iteration of "for row in rd"
ReadRow ==
    /\ pc = "exp_rows"
    /\ Len(expRows) < MaxExpRows
    /\ \E row \in ExpRowChoices :
          /\ expRows' = Append(expRows, row)
          /\ IF RowParses(headers, row)
             THEN /\ experimental_data' =
                        DictPut(experimental_data, row.name,
                                ExpRecord(headers, row))
                  /\ Continue("exp_rows")
             ELSE /\ UNCHANGED experimental_data
                  /\ Throw("ValueError", "get_exp_data")
    /\ UNCHANGED <<headers, exp_data, calcVars, reportVars>>
    /\ UNCHANGED <<renameVars, amberVars>>

\* get_exp_data, line 52, and the assignment of line 391
ReturnExpData ==
    /\ pc = "exp_rows"
    /\ exp_data' = Bound(experimental_data)
    /\ Continue("get_calc_data")
    /\ UNCHANGED <<headers, expRows, experimental_data, calcVars, reportVars>>
    /\ UNCHANGED <<renameVars, amberVars>>

\* get_calc_data on one of `files`, and the assignment of line 392
GetCalcDataOf(files) ==
    /\ pc = "get_calc_data"
    /\ \E rows \in files :
          LET r == GetCalcData(rows)
          IN  /\ calcRows' = rows
              /\ warnings' = r.warned
              /\ IF r.err = "none"
                 THEN /\ calc_data' = Bound(r.data)
                      /\ Continue("get_femap")
                 ELSE /\ UNCHANGED calc_data
                      /\ Throw(r.err, "get_calc_data")
    /\ UNCHANGED <<headers, expRows, experimental_data, exp_data, reportVars>>
    /\ UNCHANGED <<renameVars, amberVars>>

RunGetCalcData == GetCalcDataOf(RunCalcFiles)

\* line 393
GetFemap ==
    /\ pc = "get_femap"
    /\ femap' = LegacyGraphNodes(calc_data)
    /\ Continue("plot_femap")
    /\ UNCHANGED <<headers, expRows, experimental_data, exp_data, calcVars,
                   handler, calls, notices, plots, pf, ps, po>>
    /\ UNCHANGED <<renameVars, amberVars>>

\* lines 396 and 402-404
PlotFemap ==
    /\ pc = "plot_femap"
    /\ LET st == StatisticsArg(handler)
       IN  /\ calls' = Append(calls, [fn |-> "plot_femap", statistics |-> st])
           /\ \E lib \in MasterPlotOutcomes(Cardinality(femap), st) :
                 LET r == PlotFemapResult(femap, exp_data, lib)
                 IN  /\ pf' = r
                     /\ plots' = plots \cup r.files
                     /\ IF r.err = "none"
                        THEN Continue("plot_schrodinger_comparison")
                        ELSE Throw(r.err, "plot_femap")
    /\ UNCHANGED <<headers, expRows, experimental_data, exp_data, calcVars,
                   femap, handler, notices, ps, po>>
    /\ UNCHANGED <<renameVars, amberVars>>

\* lines 397 and 405-407
PlotSchrodingerComparison ==
    /\ pc = "plot_schrodinger_comparison"
    /\ LET st == StatisticsArg(handler)
       IN  /\ calls' = Append(calls, [fn |-> "plot_schrodinger_comparison",
                                      statistics |-> st])
           /\ \E lib \in MasterPlotOutcomes(Len(exp_data.keys), st) :
                 LET r == PlotSchrodingerResult(exp_data, lib)
                 IN  /\ ps' = r
                     /\ plots' = plots \cup r.files
                     /\ IF r.err = "none"
                        THEN Continue("plot_openfe_schrodinger_comparison")
                        ELSE Throw(r.err, "plot_schrodinger_comparison")
    /\ UNCHANGED <<headers, expRows, experimental_data, exp_data, calcVars,
                   femap, handler, notices, pf, po>>
    /\ UNCHANGED <<renameVars, amberVars>>

\* lines 398 and 408-410
PlotOpenfeSchrodingerComparison ==
    /\ pc = "plot_openfe_schrodinger_comparison"
    /\ LET st == StatisticsArg(handler)
           arrays == PairedArrays(exp_data.keys, exp_data, femap)
       IN  /\ calls' = Append(calls,
                              [fn |-> "plot_openfe_schrodinger_comparison",
                               statistics |-> st])
           /\ \E lib \in MasterPlotOutcomes(Len(arrays.fep), st) :
                 LET r == PlotOpenfeSchrodingerResult(arrays, lib)
                 IN  /\ po' = r
                     /\ plots' = plots \cup r.files
                     /\ IF r.err = "none"
                        THEN Continue("done")
                        ELSE Throw(r.err, "plot_openfe_schrodinger_comparison")
    /\ UNCHANGED <<headers, expRows, experimental_data, exp_data, calcVars,
                   femap, handler, notices, pf, ps>>
    /\ UNCHANGED <<renameVars, amberVars>>

\* lines 399-401: the handler prints the notice and enters the reduced batch
ExceptValueError ==
    /\ pc = "except"
    /\ notices' = notices + 1
    /\ handler' = TRUE
    /\ Continue("plot_femap")
    /\ UNCHANGED <<headers, expRows, experimental_data, exp_data, calcVars,
                   femap, calls, plots, pf, ps, po>>
    /\ UNCHANGED <<renameVars, amberVars>>

Next ==
    \/ ReadHeaders
    \/ ReadRow
    \/ ReturnExpData
    \/ RunGetCalcData
    \/ GetFemap
    \/ PlotFemap
    \/ PlotSchrodingerComparison
    \/ PlotOpenfeSchrodingerComparison
    \/ ExceptValueError

Spec == Init /\ [][Next]_vars

(***************************************************************************)
(* get_calc_data called on its own, over a wider family of files           *)
(***************************************************************************)
InitCalc ==
    /\ pc = "get_calc_data"
    /\ error = "none"
    /\ raisedIn = "none"
    /\ headers = {}
    /\ expRows = << >>
    /\ experimental_data = EmptyDict
    /\ exp_data = Unbound
    /\ CalcInit
    /\ ReportInit
    /\ RenameInit
    /\ AmberInit

CallGetCalcData == GetCalcDataOf(CalcFiles)

NextCalc == CallGetCalcData

SpecCalc == InitCalc /\ [][NextCalc]_vars

(***************************************************************************)
(* The reports called on any experimental mapping and any graph: the       *)
(* batch of run() entered at any of its reports, with either statistics    *)
(* argument.                                                               *)
(***************************************************************************)
\* the mapping get_exp_data returns for a file with a complete header
RECURSIVE ReadAllRows(_, _, _)
ReadAllRows(h, rows, data) ==
    IF rows = << >>
    THEN data
    ELSE ReadAllRows(h, Tail(rows),
                     DictPut(data, Head(rows).name, ExpRecord(h, Head(rows))))

ExpDicts ==
    {Bound(ReadAllRows(Columns, rows, EmptyDict)) :
        rows \in SeqsUpTo({r \in ExpRowChoices : RowParses(Columns, r)},
                          MaxExpRows)}

InitReports ==
    /\ pc \in ReportFunctions
    /\ error = "none"
    /\ raisedIn = "none"
    /\ headers = Columns
    /\ expRows = << >>
    /\ experimental_data = EmptyDict
    /\ exp_data \in ExpDicts
    /\ CalcInit
    /\ femap \in SUBSET Ligands
    /\ handler \in BOOLEAN
    /\ calls = << >>
    /\ notices = IF handler THEN 1 ELSE 0
    /\ plots = {}
    /\ pf = NotCalled
    /\ ps = NotCalled
    /\ po = NotCalledOfe
    /\ RenameInit
    /\ AmberInit

NextReports ==
    \/ PlotFemap
    \/ PlotSchrodingerComparison
    \/ PlotOpenfeSchrodingerComparison
    \/ ExceptValueError

SpecReports == InitReports /\ [][NextReports]_vars

(***************************************************************************)
(* Properties of plot_results.py                                           *)
(***************************************************************************)
ReportOrder ==
    <<"plot_femap", "plot_schrodinger_comparison",
      "plot_openfe_schrodinger_comparison">>

IsFullCall(c) == c.statistics = {"RMSE", "MUE", "R2", "rho"}
IsReducedCall(c) == c.statistics = {"RMSE", "MUE"}

FirstBatch == SelectSeq(calls, IsFullCall)
SecondBatch == SelectSeq(calls, IsReducedCall)

InReportOrder(batch) ==
    /\ Len(batch) <= Len(ReportOrder)
    /\ \A i \in 1..Len(batch) : batch[i].fn = ReportOrder[i]

\* the result record of the report invoked last
LastResult ==
    LET fn == calls[Len(calls)].fn
    IN  IF fn = "plot_femap" THEN pf
        ELSE IF fn = "plot_schrodinger_comparison" THEN ps ELSE po

\* C1: the reports are attempted at most twice. A ValueError of a report of
\* the first batch (full statistics) is caught once: the notice is printed
\* exactly once and the three reports are invoked again, in order, each once,
\* with RMSE and MUE only; an error of the reduced batch leaves run()
\* uncaught, with no further attempt; when the first batch succeeds no notice
\* is printed and nothing is invoked again.
C1_RetryOnce ==
    /\ notices <= 1
    /\ calls = FirstBatch \o SecondBatch
    /\ InReportOrder(FirstBatch)
    /\ InReportOrder(SecondBatch)
    /\ (pc = "except") =>
          /\ notices = 0
          /\ LastResult.err = "ValueError"
          /\ SecondBatch = << >>
    /\ (notices = 1) <=> handler
    /\ (notices = 0 /\ pc # "except") => SecondBatch = << >>
    /\ (handler /\ pc = "raised") =>
          /\ error # "none"
          /\ LastResult.err = error
          /\ SecondBatch # << >>
    /\ (handler /\ pc = "done") =>
          /\ Len(SecondBatch) = Len(ReportOrder)
          /\ error = "none"
    /\ (~handler /\ pc = "done") =>
          /\ Len(FirstBatch) = Len(ReportOrder)
          /\ notices = 0
          /\ error = "none"
    /\ (~handler /\ pc = "raised") => notices = 0

\* C1 witness: the third report of the first batch raised ValueError and the
\* reduced batch of three reports completed.
C1_Witness ==
    /\ pc = "done"
    /\ notices = 1
    /\ Len(FirstBatch) = Len(ReportOrder)
    /\ Len(SecondBatch) = Len(ReportOrder)

\* C2: whenever run() reaches the reports with fewer than 3 ligands in the
\* experimental file (0, 1 or 2), each ligand of the graph having
\* experimental data, it ends through the reduced-statistics fallback and
\* not with an uncaught error.
C2_SmallSampleFallsBack ==
    (/\ pc \in {"done", "raised"}
     /\ calls # << >>
     /\ Len(exp_data.keys) < 3
     /\ femap \subseteq Range(exp_data.keys))
        => (pc = "done" /\ notices = 1 /\ error = "none")

\* the row of the calculated file that the record under `tag` comes from
LastRowFor(tag) ==
    LET idx == {i \in 1..Len(calcRows) :
                   <<calcRows[i].ligand_i, calcRows[i].ligand_j>> = tag}
    IN  calcRows[CHOOSE i \in idx : \A j \in idx : j <= i]

\* C3 as stated: a parsed standard error below 0.01 is replaced by exactly
\* 0.01, so every returned record has ddG_err >= 0.01.
C3_FlooredAtThreshold ==
    calc_data.bound =>
        \A t \in Range(calc_data.keys) :
            /\ calc_data.val[t].ddG_err >= 10
            /\ (LastRowFor(t).err.v < 10) => calc_data.val[t].ddG_err = 10

\* C3 amended: a parsed standard error e below 0.01 is returned as e + 0.01,
\* not as 0.01; a record has ddG_err >= 0.01 exactly when its parsed error is
\* not negative.
C3_PaddedNotFloored ==
    calc_data.bound =>
        \A t \in Range(calc_data.keys) :
            LET e == LastRowFor(t).err.v
            IN  /\ (e < 10) => calc_data.val[t].ddG_err - e = 10
                /\ (e >= 0) <=> (calc_data.val[t].ddG_err >= 10)

\* C3 witness: a record whose parsed error 0.003 lies between 0 and 0.01.
C3_Witness ==
    /\ calc_data.bound
    /\ \E t \in Range(calc_data.keys) :
          /\ LastRowFor(t).err.v = 3
          /\ calc_data.val[t].ddG_err = 13

IsPaddedRow(row) == row.err.v < 10
TagOf(row) == <<row.ligand_i, row.ligand_j>>

\* C4: a row with standard error e < 0.01 is returned with ddG_err = e + 0.01
\* (0.003 gives 0.013) and one warning is emitted for it; a row with
\* e >= 0.01 is returned unchanged and no warning is emitted for it.
C4_PaddingAndWarning ==
    calc_data.bound =>
        /\ \A t \in Range(calc_data.keys) :
              LET e == LastRowFor(t).err.v
              IN  calc_data.val[t].ddG_err = IF e < 10 THEN e + 10 ELSE e
        /\ LET padded == SelectSeq(calcRows, IsPaddedRow)
           IN  warnings = [i \in 1..Len(padded) |-> TagOf(padded[i])]

\* C4 witness: a file with one row of error 0.003 (returned as 0.013, warned)
\* and one row of error 0.02 (returned as 0.02, not warned).
C4_Witness ==
    /\ calc_data.bound
    /\ Len(warnings) = 1
    /\ \E t, u \in Range(calc_data.keys) :
          /\ LastRowFor(t).err.v = 3
          /\ calc_data.val[t].ddG_err = 13
          /\ warnings[1] = t
          /\ LastRowFor(u).err.v = 20
          /\ calc_data.val[u].ddG_err = 20

InGraph(entry) == entry \in femap
PairedLigands == SelectSeq(exp_data.keys, InGraph)

\* C5: plot_openfe_schrodinger_comparison builds its paired arrays from
\* exactly the ligands present in both the experimental file and the graph,
\* all arrays have equal length, and the exclusion raises no error for any
\* input, also when every experimental ligand is absent from the graph.
C5_ExclusionNeverFails ==
    (po.called /\ exp_data.keys # << >>) =>
        /\ po.err # "ZeroDivisionError"
        /\ Len(po.arrays.fep) = Len(PairedLigands)
        /\ Len(po.arrays.fep_err) = Len(PairedLigands)
        /\ Len(po.arrays.dg_openfe) = Len(PairedLigands)
        /\ Len(po.arrays.openfe_err) = Len(PairedLigands)
        /\ Len(po.arrays.exp) = Len(PairedLigands)
        /\ \A i \in 1..Len(PairedLigands) :
              /\ po.arrays.dg_openfe[i] = <<"calc_DG", PairedLigands[i]>>
              /\ po.arrays.exp[i] = exp_data.val[PairedLigands[i]].exp_dG

RECURSIVE SumOver(_, _)
SumOver(S, d) ==
    IF S = {} THEN 0
    ELSE LET k == CHOOSE x \in S : TRUE
         IN  d.val[k].exp_dG + SumOver(S \ {k}, d)

\* shift = (sum of exp_dG over the ligands S) / |S|, compared as fractions
IsMeanOver(shift, S) ==
    /\ shift.den > 0
    /\ shift.num * Cardinality(S) = SumOver(S, exp_data) * shift.den

\* C6 as stated: in plot_femap and in plot_openfe_schrodinger_comparison the
\* shift is the mean of exp_dG over all ligands of the experimental file.
C6_ShiftOverAllExperimental ==
    /\ (pf.called /\ pf.shift # NoShift)
          => IsMeanOver(pf.shift, Range(exp_data.keys))
    /\ (po.called /\ po.shift # NoShift)
          => IsMeanOver(po.shift, Range(exp_data.keys))

\* C6 amended: in plot_femap the shift is the mean of exp_dG over all ligands
\* of the experimental file, whichever of them are in the graph; in
\* plot_openfe_schrodinger_comparison it is the mean of exp_dG over only the
\* ligands that are both in the experimental file and in the graph.
C6_ShiftPerReport ==
    /\ (pf.called /\ pf.shift # NoShift)
          => IsMeanOver(pf.shift, Range(exp_data.keys))
    /\ (po.called /\ po.shift # NoShift)
          => IsMeanOver(po.shift, Range(exp_data.keys) \cap femap)

\* C6 witness: both shifts were computed while an experimental ligand is
\* absent from the graph.
C6_Witness ==
    /\ pf.called /\ pf.shift # NoShift
    /\ po.called /\ po.shift # NoShift
    /\ \E l \in Range(exp_data.keys) : l \notin femap

RaisedInReader ==
    /\ pc = "raised"
    /\ error = "ValueError"
    /\ raisedIn = "get_exp_data"

RowIsWellFormed(row) ==
    /\ row.exp_dG.ok /\ row.fep_dG.ok /\ row.fep_dG_err.ok
    /\ ("Exp. dG error (kcal/mol)" \in headers) => row.exp_dG_err.ok

HeaderIsComplete ==
    {"Ligand name", "Exp. dG (kcal/mol)", "Pred. dG (kcal/mol)",
     "Pred. dG std. error (kcal/mol)"} \subseteq headers

\* C8: get_exp_data fails fast with no partial results. A header lacking a
\* required column raises before any data row is read; a malformed numeric
\* field raises without returning the records parsed so far; in run() such
\* an error is fatal, produces no plot and never enters the
\* reduced-statistics retry. Only a missing "Exp. dG error (kcal/mol)"
\* column is tolerated, giving exp_dG_err = 0 for every ligand.
C8_ReaderFailsFast ==
    /\ (pc # "get_exp_data" /\ ~HeaderIsComplete)
          => (RaisedInReader /\ expRows = << >>)
    /\ (expRows # << >> /\ ~RowIsWellFormed(expRows[Len(expRows)]))
          => RaisedInReader
    /\ RaisedInReader =>
          /\ ~exp_data.bound
          /\ plots = {}
          /\ calls = << >>
          /\ notices = 0
          /\ ~handler
    /\ exp_data.bound =>
          /\ HeaderIsComplete
          /\ \A i \in 1..Len(expRows) : RowIsWellFormed(expRows[i])
          /\ Range(exp_data.keys) = {expRows[i].name : i \in 1..Len(expRows)}
          /\ ("Exp. dG error (kcal/mol)" \notin headers) =>
                \A k \in Range(exp_data.keys) : exp_data.val[k].exp_dG_err = 0

\* C8 witness: the second row of a file with a complete header is malformed;
\* the record of the first row had already been parsed.
C8_Witness ==
    /\ RaisedInReader
    /\ HeaderIsComplete
    /\ Len(expRows) = 2
    /\ Len(experimental_data.keys) = 1

(***************************************************************************)
(* rename_exp_data.py: main                                                *)
(* Ligand names are text identifiers, which pd.read_csv and str() leave    *)
(* as they are; a CSV has at least one data row.                           *)
(***************************************************************************)
MaxCsvRows == 3

PrivateNames == {"LigA", "LigB", "LigC"}
BlindedNames == {"CCD-0001", "CCD-0002"}

\* a row of the CSV: the "Ligand Name" column and another column
CsvRowChoices == [ligand_name : PrivateNames, exp_dg : {-95, -81}]

CsvFiles == SeqsUpTo(CsvRowChoices, MaxCsvRows) \ {<< >>}

NameMappings == UNION {[S -> BlindedNames] : S \in SUBSET PrivateNames}

\* mutant: name_mapping.get(name, name), an unmapped name kept as it is
RenameOrKeep(mapping, row) ==
    [ok |-> TRUE,
     value |-> IF row.ligand_name \in DOMAIN mapping
               THEN mapping[row.ligand_name]
               ELSE row.ligand_name]

\* _rename: name_mapping[str(row["Ligand Name"])], KeyError becoming a
\* RuntimeError that names row['Ligand Name']
Rename(mapping, row) ==
    IF row.ligand_name \in DOMAIN mapping
    THEN [ok |-> TRUE, value |-> mapping[row.ligand_name]]
    ELSE [ok |-> FALSE, value |-> row.ligand_name]

\* exp_csv['Ligand Name'] = <the Series apply returned>
SetLigandName(frame, column) ==
    [i \in 1..Len(frame) |-> [frame[i] EXCEPT !.ligand_name = column[i]]]

\* mutant: to_csv without index=False, which writes the index as a column
ToCsvWithIndex(frame) ==
    [i \in 1..Len(frame) |->
        [index |-> i - 1, ligand_name |-> frame[i].ligand_name,
         exp_dg |-> frame[i].exp_dg]]

\* exp_csv.to_csv(output, index=False): the columns of the frame, no index
ToCsv(frame) == frame

InitRename ==
    /\ pc = "read_csv"
    /\ error = "none"
    /\ raisedIn = "none"
    /\ headers = {}
    /\ expRows = << >>
    /\ experimental_data = EmptyDict
    /\ exp_data = Unbound
    /\ CalcInit
    /\ ReportInit
    /\ RenameInit
    /\ AmberInit

\* exp_csv = pd.read_csv(experimental_data)
ReadCsv ==
    /\ pc = "read_csv"
    /\ \E rows \in CsvFiles :
          /\ csv_file' = rows
          /\ exp_csv' = rows
    /\ pc' = "json_load"
    /\ UNCHANGED <<error, raisedIn, name_mapping, renamed, output, message>>
    /\ UNCHANGED <<plotVars, amberVars>>

\* name_mapping = json.load(name_mapping_file.open("r"))
LoadNameMapping ==
    /\ pc = "json_load"
    /\ \E m \in NameMappings : name_mapping' = m
    /\ pc' = "apply"
    /\ UNCHANGED <<error, raisedIn, csv_file, exp_csv, renamed, output, message>>
    /\ UNCHANGED <<plotVars, amberVars>>

\* exp_csv.apply(_rename, axis=1): _rename on the next row
RenameRow ==
    /\ pc = "apply"
    /\ Len(renamed) < Len(exp_csv)
    /\ LET r == Rename(name_mapping, exp_csv[Len(renamed) + 1])
       IN  IF r.ok
           THEN /\ renamed' = Append(renamed, r.value)
                /\ UNCHANGED <<pc, error, raisedIn, message>>
           ELSE /\ pc' = "raised"
                /\ error' = "RuntimeError"
                /\ raisedIn' = "_rename"
                /\ message' = r.value
                /\ UNCHANGED renamed
    /\ UNCHANGED <<csv_file, exp_csv, name_mapping, output>>
    /\ UNCHANGED <<plotVars, amberVars>>

\* the assignment of the column once apply has returned
AssignLigandName ==
    /\ pc = "apply"
    /\ Len(renamed) = Len(exp_csv)
    /\ exp_csv' = SetLigandName(exp_csv, renamed)
    /\ pc' = "to_csv"
    /\ UNCHANGED <<error, raisedIn, csv_file, name_mapping, renamed, output,
                   message>>
    /\ UNCHANGED <<plotVars, amberVars>>

\* exp_csv.to_csv(output, index=False)
WriteCsv ==
    /\ pc = "to_csv"
    /\ output' = [written |-> TRUE, rows |-> ToCsv(exp_csv)]
    /\ pc' = "done"
    /\ UNCHANGED <<error, raisedIn, csv_file, exp_csv, name_mapping, renamed,
                   message>>
    /\ UNCHANGED <<plotVars, amberVars>>

NextRename ==
    \/ ReadCsv
    \/ LoadNameMapping
    \/ RenameRow
    \/ AssignLigandName
    \/ WriteCsv

SpecRename == InitRename /\ [][NextRename]_vars

UnmappedRows ==
    {i \in 1..Len(csv_file) : csv_file[i].ligand_name \notin DOMAIN name_mapping}

MappingLoaded == pc \in {"apply", "to_csv", "done", "raised"}

\* C7: for a CSV with a ligand name absent from the mapping, wherever its row
\* is, main ends with a RuntimeError naming that exact name (the first such
\* name in row order) and writes no output: the write step is never reached,
\* and neither the file nor the frame in memory is partially renamed.
C7_UnmappedNameIsFatal ==
    (MappingLoaded /\ UnmappedRows # {}) =>
        /\ pc \in {"apply", "raised"}
        /\ ~output.written
        /\ exp_csv = csv_file
        /\ pc = "raised" =>
              /\ error = "RuntimeError"
              /\ LET first == CHOOSE i \in UnmappedRows :
                                 \A j \in UnmappedRows : i <= j
                 IN  /\ message = csv_file[first].ligand_name
                     /\ Len(renamed) = first - 1
        /\ pc = "apply" => Len(renamed) < Len(csv_file)

\* C7 witness: the run failed on a later row, after rows before it had been
\* converted.
C7_Witness ==
    /\ pc = "raised"
    /\ error = "RuntimeError"
    /\ Len(renamed) >= 1
    /\ ~output.written

Suffixes == {".pdb", ".ent", ".parmtop", ".crd"}

InputPaths ==
    {[dir |-> d, name |-> n] :
        d \in {"structures", "amber_top"},
        n \in {<<"protein", ".pdb">>, <<"protein">>,
               <<"protein", ".ent", ".pdb">>}}

ForceFields == {"protein.ff14SB", "protein.ff19SB"}
OutputFolders == {"amber_top", "results"}

\* Path(p).stem: the file name without its last suffix
Stem(p) ==
    IF Len(p.name) > 1 /\ p.name[Len(p.name)] \in Suffixes
    THEN SubSeq(p.name, 1, Len(p.name) - 1)
    ELSE p.name

\* os.path.join(output_folder, f"{Path(p).stem}<tail>")
InFolder(folder, p, tail) == [dir |-> folder, name |-> Stem(p) \o tail]

\* line 20
Pdb4amberOutput(folder, p) == InFolder(folder, p, <<"_pdb4amber", ".pdb">>)

\* mutant: input_pdb not rebound, leap_gen_top given the original file
LeapInputStale(repaired) == args.input_pdb

\* line 36: input_pdb = output_pdb_path
LeapInput(repaired) == repaired

\* lines 37-39
LeapOutputs(folder, p) ==
    [output_pdb_path |-> InFolder(folder, p, <<"_leap", ".pdb">>),
     output_top_path |-> InFolder(folder, p, <<".parmtop">>),
     output_crd_path |-> InFolder(folder, p, <<".crd">>)]

\* how a call of an external tool can end: it writes its outputs, it returns
\* without them, or it raises
ToolOutcomes == {"ok", "failed", "raised"}

InitAmber ==
    /\ pc = "check_input"
    /\ error = "none"
    /\ raisedIn = "none"
    /\ headers = {}
    /\ expRows = << >>
    /\ experimental_data = EmptyDict
    /\ exp_data = Unbound
    /\ CalcInit
    /\ ReportInit
    /\ RenameInit
    /\ args \in [input_pdb : InputPaths, force_field : ForceFields,
                 output_folder : OutputFolders]
    /\ fs \in SUBSET {args.input_pdb, [dir |-> args.output_folder, name |-> << >>]}
    /\ events = << >>
    /\ input_pdb = args.input_pdb
    /\ output_pdb_path = NoPath

FolderPath(folder) == [dir |-> folder, name |-> << >>]

\* lines 13-14
CheckInput ==
    /\ pc = "check_input"
    /\ IF input_pdb \in fs
       THEN pc' = "check_folder" /\ UNCHANGED <<error, raisedIn>>
       ELSE pc' = "raised" /\ error' = "Exception" /\ raisedIn' = "main"
    /\ UNCHANGED <<amberVars, plotVars, renameVars>>

\* lines 17-18
MakeOutputFolder ==
    /\ pc = "check_folder"
    /\ IF FolderPath(args.output_folder) \in fs
       THEN UNCHANGED <<fs, events>>
       ELSE /\ fs' = fs \cup {FolderPath(args.output_folder)}
            /\ events' = Append(events,
                                [tool |-> "os.makedirs", phase |-> "call",
                                 input |-> FolderPath(args.output_folder),
                                 outputs |-> {}])
    /\ pc' = "pdb4amber_run"
    /\ UNCHANGED <<error, raisedIn, args, input_pdb, output_pdb_path>>
    /\ UNCHANGED <<plotVars, renameVars>>

\* lines 20-29: the call of pdb4amber_run
CallPdb4amber ==
    /\ pc = "pdb4amber_run"
    /\ output_pdb_path' = Pdb4amberOutput(args.output_folder, input_pdb)
    /\ events' = Append(events,
                        [tool |-> "pdb4amber_run", phase |-> "call",
                         input |-> input_pdb,
                         outputs |-> {output_pdb_path'}])
    /\ pc' = "in_pdb4amber_run"
    /\ UNCHANGED <<error, raisedIn, args, fs, input_pdb>>
    /\ UNCHANGED <<plotVars, renameVars>>

\* pdb4amber_run runs to its end
Pdb4amberReturns ==
    /\ pc = "in_pdb4amber_run"
    /\ \E outcome \in ToolOutcomes :
          /\ fs' = IF outcome = "ok" THEN fs \cup {output_pdb_path} ELSE fs
          /\ events' = Append(events,
                              [tool |-> "pdb4amber_run", phase |-> outcome,
                               input |-> input_pdb,
                               outputs |-> {output_pdb_path}])
          /\ IF outcome = "raised"
             THEN pc' = "raised" /\ error' = "ToolError"
                  /\ raisedIn' = "pdb4amber_run"
             ELSE pc' = "leap_gen_top" /\ UNCHANGED <<error, raisedIn>>
    /\ UNCHANGED <<args, input_pdb, output_pdb_path>>
    /\ UNCHANGED <<plotVars, renameVars>>

\* lines 32-43: the rebinding of input_pdb and the call of leap_gen_top
CallLeap ==
    /\ pc = "leap_gen_top"
    /\ input_pdb' = LeapInput(output_pdb_path)
    /\ LET out == LeapOutputs(args.output_folder, input_pdb')
       IN  /\ output_pdb_path' = out.output_pdb_path
           /\ events' = Append(events,
                               [tool |-> "leap_gen_top", phase |-> "call",
                                input |-> input_pdb',
                                outputs |-> {out.output_pdb_path,
                                             out.output_top_path,
                                             out.output_crd_path}])
    /\ pc' = "in_leap_gen_top"
    /\ UNCHANGED <<error, raisedIn, args, fs>>
    /\ UNCHANGED <<plotVars, renameVars>>

\* leap_gen_top runs to its end; line 45
LeapReturns ==
    /\ pc = "in_leap_gen_top"
    /\ \E outcome \in ToolOutcomes :
          LET call == events[Len(events)]
          IN  /\ fs' = IF outcome = "ok" THEN fs \cup call.outputs ELSE fs
              /\ events' = Append(events, [call EXCEPT !.phase = outcome])
              /\ IF outcome = "raised"
                 THEN pc' = "raised" /\ error' = "ToolError"
                      /\ raisedIn' = "leap_gen_top"
                 ELSE pc' = "done" /\ UNCHANGED <<error, raisedIn>>
    /\ UNCHANGED <<args, input_pdb, output_pdb_path>>
    /\ UNCHANGED <<plotVars, renameVars>>

NextAmber ==
    \/ CheckInput
    \/ MakeOutputFolder
    \/ CallPdb4amber
    \/ Pdb4amberReturns
    \/ CallLeap
    \/ LeapReturns

SpecAmber == InitAmber /\ [][NextAmber]_vars

ToolEvents(tool, phases) ==
    {i \in 1..Len(events) : events[i].tool = tool /\ events[i].phase \in phases}

\* the file name of the input without its last suffix, piece by piece
BaseName ==
    LET n == args.input_pdb.name
    IN  IF n = <<"protein", ".pdb">> THEN <<"protein">>
        ELSE IF n = <<"protein", ".ent", ".pdb">> THEN <<"protein", ".ent">>
        ELSE n

HasBaseNamePlusSuffix(p) ==
    /\ p.dir = args.output_folder
    /\ Len(p.name) > Len(BaseName)
    /\ SubSeq(p.name, 1, Len(BaseName)) = BaseName

\* C10: the two external calls are strictly sequential: leap_gen_top is
\* called only after pdb4amber_run has returned, with the output file of
\* pdb4amber_run as its input; every output path lies in the output folder
\* and is the base name of the input file plus a suffix; when the input
\* file does not exist main raises before it creates the output folder and
\* before it calls either tool.
C10_SequentialDriver ==
    /\ \A i \in ToolEvents("leap_gen_top", {"call"}) :
          /\ \E j \in ToolEvents("pdb4amber_run", {"ok", "failed"}) :
                /\ j < i
                /\ events[i].input \in events[j].outputs
          /\ ToolEvents("pdb4amber_run", {"call"}) # {}
          /\ \A k \in ToolEvents("pdb4amber_run", {"call"}) : k < i
    /\ Cardinality(ToolEvents("pdb4amber_run", {"call"})) <= 1
    /\ Cardinality(ToolEvents("leap_gen_top", {"call"})) <= 1
    /\ (pc = "in_pdb4amber_run") => ToolEvents("leap_gen_top", {"call"}) = {}
    /\ \A i \in 1..Len(events) :
          events[i].tool # "os.makedirs" =>
             /\ events[i].outputs # {}
             /\ \A p \in events[i].outputs : HasBaseNamePlusSuffix(p)
    /\ (pc # "check_input" /\ args.input_pdb \notin fs) =>
          /\ pc = "raised"
          /\ error = "Exception"
          /\ raisedIn = "main"
          /\ events = << >>
    /\ events # << >> => args.input_pdb \in fs

\* C10 witness: both tools were called and returned, in an output folder
\* that main had to create, for an input file name with two suffixes.
C10_Witness ==
    /\ pc = "done"
    /\ ToolEvents("os.makedirs", {"call"}) # {}
    /\ ToolEvents("leap_gen_top", {"ok"}) # {}
    /\ args.input_pdb.name = <<"protein", ".ent", ".pdb">>

====
